---- MODULE Spec2Model ----
(* Balance Wheel (src/balance_wheel.py): a Streamlit script that is run from  *)
(* top to bottom once per rendering pass.  The durable state is the backing   *)
(* file DATA_FILE and st.session_state.refresh_flag; everything else is       *)
(* rebuilt in each pass.  One action per section of the script.               *)
EXTENDS Integers, Sequences, FiniteSets, TLC

VARIABLES
    file,              \* DATA_FILE on disk: [exists, content (JSON text as tokens)]
    history,           \* the script's dict `history` (insertion-ordered)
    pc,                \* the section of the script the pass is about to run
    click,             \* the button whose click triggered this pass
    uploaded,          \* what st.file_uploader holds: [held, content]
    selected_time,     \* value of the selectbox: [current, key]
    ratings,           \* list `ratings` (one per category, in order)
    notes,             \* dict `notes`
    defaults,          \* default_rating / default_note handed to the widgets
    colors,            \* list `colors` handed to ax.pie
    has_refresh_flag,  \* "refresh_flag" in st.session_state
    refresh_flag,      \* st.session_state.refresh_flag
    messages,          \* st.success / st.error / exception boxes of this pass
    rerun,             \* the pass ended in st.experimental_rerun()
    now,               \* the wall clock, in seconds
    saved,             \* log of the Save operations since the file was last absent
    onlySaves          \* no write other than Saves with distinct timestamps since then

vars == <<file, history, pc, click, uploaded, selected_time, ratings, notes,
          defaults, colors, has_refresh_flag, refresh_flag, messages, rerun,
          now, saved, onlySaves>>

-----------------------------------------------------------------------------
(* Bounds *)

MaxClock == 2

-----------------------------------------------------------------------------
(* Constants of the script *)

categories ==
    <<"Physical", "Emotional", "Professional", "Creativity", "Financial", "Adventures">>

CatSet == {categories[i] : i \in 1..Len(categories)}

base_colors ==
    [cat \in CatSet |->
        CASE cat = "Physical"     -> "blue"
          [] cat = "Emotional"    -> "yellow"
          [] cat = "Professional" -> "purple"
          [] cat = "Creativity"   -> "teal"
          [] cat = "Financial"    -> "grey"
          [] cat = "Adventures"   -> "orange"]

SliderMin == 0

SliderMax == 10

DefaultRating == 5

DefaultNote == ""

-----------------------------------------------------------------------------
(* Timestamps: strftime gives a fixed-width, zero-padded string; strings are  *)
(* compared character by character.                                           *)

strftime(t) == <<(t \div 10) % 10, t % 10>>

RECURSIVE StrLess(_, _)
StrLess(a, b) ==
    IF b = <<>> THEN FALSE
    ELSE IF a = <<>> THEN TRUE
    ELSE IF Head(a) # Head(b) THEN Head(a) < Head(b)
    ELSE StrLess(Tail(a), Tail(b))

RECURSIVE SortedDesc(_)
SortedDesc(S) ==
    IF S = {} THEN <<>>
    ELSE LET m == CHOOSE x \in S : \A y \in S \ {x} : StrLess(y, x)
         IN  <<m>> \o SortedDesc(S \ {m})

Reverse(s) == [i \in 1..Len(s) |-> s[Len(s) + 1 - i]]

-----------------------------------------------------------------------------
(* Python dict with insertion order: a sequence of [key, snap] entries with   *)
(* distinct keys.  A snapshot is a function from category names to            *)
(* [rating, note].                                                            *)

EmptySnap == [c \in {} |-> [rating |-> 0, note |-> ""]]

Keys(h) == [i \in 1..Len(h) |-> h[i].key]

KeySet(h) == {h[i].key : i \in 1..Len(h)}

Lookup(h, k) == h[CHOOSE i \in 1..Len(h) : h[i].key = k].snap

DictSet(h, k, v) ==
    IF k \in KeySet(h)
    THEN [i \in 1..Len(h) |-> IF h[i].key = k THEN [key |-> k, snap |-> v] ELSE h[i]]
    ELSE Append(h, [key |-> k, snap |-> v])

DictDel(h, k) == SelectSeq(h, LAMBDA e : e.key # k)

-----------------------------------------------------------------------------
(* JSON text, as a sequence of tokens.  json_dump flattens the nested dict;   *)
(* json_load rebuilds it, and fails on text that is not a document.           *)

KeyTok(k) == [t |-> "key", key |-> k, cat |-> "", rating |-> 0, note |-> ""]

CatTok(c, r, n) == [t |-> "cat", key |-> <<>>, cat |-> c, rating |-> r, note |-> n]

BadTok == [t |-> "bad", key |-> <<>>, cat |-> "", rating |-> 0, note |-> ""]

RECURSIVE SnapToks(_, _)
SnapToks(snap, i) ==
    IF i > Len(categories) THEN <<>>
    ELSE (IF categories[i] \in DOMAIN snap
          THEN <<CatTok(categories[i], snap[categories[i]].rating, snap[categories[i]].note)>>
          ELSE <<>>) \o SnapToks(snap, i + 1)

(* Variant: only the newest entry is written (the file is not rewritten whole). *)
json_dump_newest(h) ==
    IF h = <<>> THEN <<>>
    ELSE <<KeyTok(h[Len(h)].key)>> \o SnapToks(h[Len(h)].snap, 1)

RECURSIVE json_dump(_)
json_dump(h) ==
    IF h = <<>> THEN <<>>
    ELSE <<KeyTok(Head(h).key)>> \o SnapToks(Head(h).snap, 1) \o json_dump(Tail(h))

RECURSIVE ParseFrom(_, _, _)
ParseFrom(toks, acc, cur) ==
    IF toks = <<>> THEN [ok |-> TRUE, value |-> acc]
    ELSE LET tk == Head(toks) IN
         CASE tk.t = "key" ->
                ParseFrom(Tail(toks), DictSet(acc, tk.key, EmptySnap), tk.key)
           [] tk.t = "cat" ->
                IF acc = <<>> THEN [ok |-> FALSE, value |-> <<>>]
                ELSE ParseFrom(Tail(toks),
                               DictSet(acc, cur,
                                       (tk.cat :> [rating |-> tk.rating, note |-> tk.note])
                                           @@ Lookup(acc, cur)),
                               cur)
           [] OTHER -> [ok |-> FALSE, value |-> <<>>]

json_load(toks) == ParseFrom(toks, <<>>, <<>>)

-----------------------------------------------------------------------------
(* Values the environment supplies *)

Absent == [exists |-> FALSE, content |-> <<>>]

OnDisk(toks) == [exists |-> TRUE, content |-> toks]

NoUpload == [held |-> FALSE, content |-> <<>>]

Upload(toks) == [held |-> TRUE, content |-> toks]

CurrentInput == [current |-> TRUE, key |-> <<>>]

Past(k) == [current |-> FALSE, key |-> k]

NoClick == [button |-> "none", ts |-> <<>>]

Button(b) == [button |-> b, ts |-> <<>>]

DeleteButton(k) == [button |-> "delete", ts |-> k]

RatingInputs == { <<5, 5, 5, 5, 5, 5>>, <<10, 2, 2, 5, 5, 5>> }

NoteInputs ==
    { [cat \in CatSet |-> ""],
      [cat \in CatSet |-> IF cat = "Physical" THEN "run" ELSE ""] }

FullSnap(r, n) == [cat \in CatSet |-> [rating |-> r, note |-> n]]

Payloads ==
    { <<BadTok>>,
      <<>>,
      json_dump(<<[key |-> strftime(2), snap |-> FullSnap(3, "b")],
                  [key |-> strftime(1), snap |-> FullSnap(7, "a")]>>),
      json_dump(<<[key |-> strftime(1),
                   snap |-> [cat \in CatSet \ {"Adventures"} |-> [rating |-> 4, note |-> ""]]]>>),
      json_dump(<<[key |-> strftime(1), snap |-> FullSnap(11, "")]>>),
      <<KeyTok(strftime(1)), CatTok("Physical", 1, ""), KeyTok(strftime(2)),
        KeyTok(strftime(1)), CatTok("Emotional", 2, "")>> }

-----------------------------------------------------------------------------

Init ==
    /\ file \in {Absent, OnDisk(<<BadTok>>)}
    /\ history = <<>>
    /\ pc = "load"
    /\ click = NoClick
    /\ uploaded = NoUpload
    /\ selected_time = CurrentInput
    /\ ratings = <<>>
    /\ notes = EmptySnap
    /\ defaults = EmptySnap
    /\ colors = <<>>
    /\ has_refresh_flag = FALSE
    /\ refresh_flag = FALSE
    /\ messages = {}
    /\ rerun = FALSE
    /\ now = 1
    /\ saved = <<>>
    /\ onlySaves = ~file.exists

-----------------------------------------------------------------------------
(* An uncaught exception ends the pass: Streamlit shows it and waits. *)

Raise ==
    /\ pc' = "done"
    /\ messages' = messages \cup {"exception"}
    /\ rerun' = FALSE

(* "Load saved history" *)
Load ==
    /\ pc = "load"
    /\ history' = IF file.exists
                  THEN LET r == json_load(file.content)
                       IN  IF r.ok THEN r.value ELSE <<>>
                  ELSE <<>>
    /\ pc' = "select"
    /\ UNCHANGED <<file, click, uploaded, selected_time, ratings, notes, defaults,
                   colors, has_refresh_flag, refresh_flag, messages, rerun, now,
                   saved, onlySaves>>

(* "Choose a past snapshot to view": the options are "(Current Input)" and   *)
(* the keys, last inserted first.                                            *)
selectbox_options(h) == Reverse(Keys(h))

Select ==
    /\ pc = "select"
    /\ IF history # <<>>
       THEN \E sel \in {CurrentInput} \cup {Past(k) : k \in KeySet(history)} :
                selected_time' = sel
       ELSE selected_time' = CurrentInput
    /\ pc' = "ratings"
    /\ UNCHANGED <<file, history, click, uploaded, ratings, notes, defaults, colors,
                   has_refresh_flag, refresh_flag, messages, rerun, now, saved,
                   onlySaves>>

(* Variant: the snapshot under the greatest key instead of the last inserted. *)
latest_by_sort(h) ==
    IF h # <<>> THEN Lookup(h, SortedDesc(KeySet(h))[1]) ELSE EmptySnap

(* "Ratings and Notes" *)
latest_data(h) == IF h # <<>> THEN h[Len(h)].snap ELSE EmptySnap

default_rating(h, cat) ==
    IF cat \in DOMAIN latest_data(h) THEN latest_data(h)[cat].rating ELSE DefaultRating

default_note(h, cat) ==
    IF cat \in DOMAIN latest_data(h) THEN latest_data(h)[cat].note ELSE DefaultNote

ViewSnapshot ==
    /\ pc = "ratings"
    /\ ~selected_time.current
    /\ LET snapshot == Lookup(history, selected_time.key) IN
       IF \E cat \in CatSet : cat \notin DOMAIN snapshot
       THEN /\ Raise
            /\ UNCHANGED <<ratings, notes>>
       ELSE /\ ratings' = [i \in 1..Len(categories) |-> snapshot[categories[i]].rating]
            /\ notes' = [cat \in CatSet |-> snapshot[cat].note]
            /\ pc' = "chart"
            /\ UNCHANGED <<messages, rerun>>
    /\ UNCHANGED <<file, history, click, uploaded, selected_time, defaults, colors,
                   has_refresh_flag, refresh_flag, now, saved, onlySaves>>

CurrentInputs ==
    /\ pc = "ratings"
    /\ selected_time.current
    /\ defaults' = [cat \in CatSet |-> [rating |-> default_rating(history, cat),
                                       note |-> default_note(history, cat)]]
    /\ IF \E cat \in CatSet :
             default_rating(history, cat) \notin SliderMin..SliderMax
       THEN /\ Raise
            /\ UNCHANGED <<ratings, notes>>
       ELSE /\ \E r \in RatingInputs : ratings' = r
            /\ \E n \in NoteInputs : notes' = n
            /\ pc' = "chart"
            /\ UNCHANGED <<messages, rerun>>
    /\ UNCHANGED <<file, history, click, uploaded, selected_time, colors,
                   has_refresh_flag, refresh_flag, now, saved, onlySaves>>

(* "Pie chart with consistent colors and highlights" *)
RECURSIVE SeqMax(_)
SeqMax(s) ==
    IF Len(s) = 1 THEN s[1]
    ELSE LET m == SeqMax(Tail(s)) IN IF s[1] > m THEN s[1] ELSE m

RECURSIVE SeqMin(_)
SeqMin(s) ==
    IF Len(s) = 1 THEN s[1]
    ELSE LET m == SeqMin(Tail(s)) IN IF s[1] < m THEN s[1] ELSE m

(* Variant: the minimum is tested before the maximum. *)
pie_colors_min_first(rs) ==
    LET max_rating == SeqMax(rs)
        min_rating == SeqMin(rs)
    IN  [i \in 1..Len(categories) |->
            IF rs[i] = min_rating THEN "red"
            ELSE IF rs[i] = max_rating THEN "green"
            ELSE base_colors[categories[i]]]

pie_colors(rs) ==
    LET max_rating == SeqMax(rs)
        min_rating == SeqMin(rs)
    IN  [i \in 1..Len(categories) |->
            IF rs[i] = max_rating THEN "green"
            ELSE IF rs[i] = min_rating THEN "red"
            ELSE base_colors[categories[i]]]

Chart ==
    /\ pc = "chart"
    /\ colors' = pie_colors(ratings)
    /\ pc' = "save"
    /\ UNCHANGED <<file, history, click, uploaded, selected_time, ratings, notes,
                   defaults, has_refresh_flag, refresh_flag, messages, rerun, now,
                   saved, onlySaves>>

(* "Save button (only for current input)" *)
new_snapshot(rs, ns) ==
    [cat \in CatSet |->
        [rating |-> rs[CHOOSE i \in 1..Len(categories) : categories[i] = cat],
         note |-> ns[cat]]]

Save ==
    /\ pc = "save"
    /\ IF selected_time.current /\ click.button = "save"
       THEN LET timestamp == strftime(now)
                entry == [key |-> timestamp, snap |-> new_snapshot(ratings, notes)]
            IN  /\ history' = DictSet(history, timestamp, entry.snap)
                /\ file' = OnDisk(json_dump(history'))
                /\ messages' = messages \cup {"saved"}
                /\ IF onlySaves /\ timestamp \notin KeySet(saved)
                   THEN /\ saved' = Append(saved, entry)
                        /\ onlySaves' = TRUE
                   ELSE /\ saved' = <<>>
                        /\ onlySaves' = FALSE
       ELSE UNCHANGED <<history, file, messages, saved, onlySaves>>
    /\ pc' = "dashboard"
    /\ UNCHANGED <<click, uploaded, selected_time, ratings, notes, defaults, colors,
                   has_refresh_flag, refresh_flag, rerun, now>>

(* "Mini History Dashboard": one table per key, greatest key first. *)
dashboard_order(h) == SortedDesc(KeySet(h))

Dashboard ==
    /\ pc = "dashboard"
    /\ IF \E i \in 1..Len(history) : \E cat \in CatSet : cat \notin DOMAIN history[i].snap
       THEN Raise
       ELSE /\ pc' = "import"
            /\ UNCHANGED <<messages, rerun>>
    /\ UNCHANGED <<file, history, click, uploaded, selected_time, ratings, notes,
                   defaults, colors, has_refresh_flag, refresh_flag, now, saved,
                   onlySaves>>

(* "IMPORT (upload) a JSON backup to restore" *)
flag_or_false == IF has_refresh_flag THEN refresh_flag ELSE FALSE

(* Variant: DATA_FILE is opened for writing before the payload is parsed. *)
ImportOpenFirst ==
    /\ pc = "import"
    /\ IF uploaded.held
       THEN LET new_hist == json_load(uploaded.content) IN
            IF new_hist.ok
            THEN /\ file' = OnDisk(json_dump(new_hist.value))
                 /\ messages' = messages \cup {"imported"}
                 /\ refresh_flag' = ~flag_or_false
                 /\ has_refresh_flag' = TRUE
                 /\ saved' = <<>>
                 /\ onlySaves' = FALSE
            ELSE /\ file' = OnDisk(<<>>)
                 /\ messages' = messages \cup {"import_failed"}
                 /\ UNCHANGED <<refresh_flag, has_refresh_flag, saved, onlySaves>>
       ELSE UNCHANGED <<file, messages, refresh_flag, has_refresh_flag, saved, onlySaves>>
    /\ pc' = "manage"
    /\ UNCHANGED <<history, click, uploaded, selected_time, ratings, notes, defaults,
                   colors, rerun, now>>

Import ==
    /\ pc = "import"
    /\ IF uploaded.held
       THEN LET new_hist == json_load(uploaded.content) IN
            IF new_hist.ok
            THEN /\ file' = OnDisk(json_dump(new_hist.value))
                 /\ messages' = messages \cup {"imported"}
                 /\ refresh_flag' = ~flag_or_false
                 /\ has_refresh_flag' = TRUE
                 /\ saved' = <<>>
                 /\ onlySaves' = FALSE
            ELSE /\ messages' = messages \cup {"import_failed"}
                 /\ UNCHANGED <<file, refresh_flag, has_refresh_flag, saved, onlySaves>>
       ELSE UNCHANGED <<file, messages, refresh_flag, has_refresh_flag, saved, onlySaves>>
    /\ pc' = "manage"
    /\ UNCHANGED <<history, click, uploaded, selected_time, ratings, notes, defaults,
                   colors, rerun, now>>

(* Variant: the key is deleted from the dict but the file is not rewritten. *)
DeleteInMemoryOnly(ts) ==
    /\ history' = DictDel(history, ts)
    /\ messages' = messages \cup {"deleted"}
    /\ refresh_flag' = ~flag_or_false
    /\ saved' = <<>>
    /\ onlySaves' = FALSE
    /\ UNCHANGED file

DeleteSnapshot(ts) ==
    /\ history' = DictDel(history, ts)
    /\ file' = OnDisk(json_dump(history'))
    /\ messages' = messages \cup {"deleted"}
    /\ refresh_flag' = ~flag_or_false
    /\ saved' = <<>>
    /\ onlySaves' = FALSE

(* Variant: the dict is cleared but the file is left in place. *)
ResetKeepFile ==
    /\ history' = <<>>
    /\ messages' = messages \cup {"reset"}
    /\ refresh_flag' = ~flag_or_false
    /\ saved' = <<>>
    /\ onlySaves' = FALSE
    /\ UNCHANGED file

ResetAll ==
    /\ history' = <<>>
    /\ file' = Absent
    /\ messages' = messages \cup {"reset"}
    /\ refresh_flag' = ~flag_or_false
    /\ saved' = <<>>
    /\ onlySaves' = TRUE

(* "Manage Saves Section with Automatic Refresh": a Delete button per key    *)
(* and the Reset All Progress button, shown only when history is not empty.  *)
Manage ==
    /\ pc = "manage"
    /\ has_refresh_flag' = TRUE
    /\ IF history # <<>> /\ click.button = "delete" /\ click.ts \in KeySet(history)
       THEN DeleteSnapshot(click.ts)
       ELSE IF history # <<>> /\ click.button = "reset"
       THEN ResetAll
       ELSE /\ refresh_flag' = flag_or_false
            /\ UNCHANGED <<history, file, messages, saved, onlySaves>>
    /\ pc' = "trigger"
    /\ UNCHANGED <<click, uploaded, selected_time, ratings, notes, defaults, colors,
                   rerun, now>>

(* "Trigger automatic refresh via session state" *)
Trigger ==
    /\ pc = "trigger"
    /\ rerun' = refresh_flag
    /\ refresh_flag' = FALSE
    /\ pc' = "done"
    /\ UNCHANGED <<file, history, click, uploaded, selected_time, ratings, notes,
                   defaults, colors, has_refresh_flag, messages, now, saved, onlySaves>>

(* A new pass runs the script from the top with fresh globals. *)
StartPass ==
    /\ pc' = "load"
    /\ history' = <<>>
    /\ selected_time' = CurrentInput
    /\ ratings' = <<>>
    /\ notes' = EmptySnap
    /\ defaults' = EmptySnap
    /\ colors' = <<>>
    /\ messages' = {}
    /\ rerun' = FALSE
    /\ \E t \in now..MaxClock : now' = t
    /\ UNCHANGED <<file, has_refresh_flag, refresh_flag, saved, onlySaves>>

(* The user clicks a button that the last pass showed, or changes the upload. *)
Interact ==
    /\ pc = "done"
    /\ \/ /\ click' \in {NoClick, Button("save"), Button("reset")}
                          \cup {DeleteButton(k) : k \in KeySet(history)}
          /\ UNCHANGED uploaded
       \/ /\ click' = NoClick
          /\ uploaded' \in {NoUpload} \cup {Upload(p) : p \in Payloads}
    /\ StartPass

(* st.experimental_rerun(): the next pass starts by itself, widgets as they were. *)
Rerun ==
    /\ pc = "done"
    /\ rerun
    /\ click' = NoClick
    /\ UNCHANGED uploaded
    /\ StartPass

Next ==
    \/ Load
    \/ Select
    \/ ViewSnapshot
    \/ CurrentInputs
    \/ Chart
    \/ Save
    \/ Dashboard
    \/ Import
    \/ Manage
    \/ Trigger
    \/ Interact
    \/ Rerun

Spec == Init /\ [][Next]_vars

-----------------------------------------------------------------------------
(* The colour rule on its own: the first pass of a session (no file), the    *)
(* six sliders at any of SliderValues, about to draw the chart.              *)

SliderValues == {0, 1, 2, 5, 9, 10}

InitColors ==
    /\ file = Absent
    /\ history = <<>>
    /\ pc = "chart"
    /\ click = NoClick
    /\ uploaded = NoUpload
    /\ selected_time = CurrentInput
    /\ ratings \in [1..Len(categories) -> SliderValues]
    /\ notes = [cat \in CatSet |-> ""]
    /\ defaults = [cat \in CatSet |-> [rating |-> DefaultRating, note |-> DefaultNote]]
    /\ colors = <<>>
    /\ has_refresh_flag = FALSE
    /\ refresh_flag = FALSE
    /\ messages = {}
    /\ rerun = FALSE
    /\ now = 1
    /\ saved = <<>>
    /\ onlySaves = TRUE

NextColors == Chart

SpecColors == InitColors /\ [][NextColors]_vars

-----------------------------------------------------------------------------
(* Properties *)

AsMap(h) == [k \in KeySet(h) |-> Lookup(h, k)]

Destructive == {"imported", "deleted", "reset"}

(* C1: after any sequence of Saves with pairwise distinct timestamps that     *)
(* started from an absent file, the History a later pass loads has exactly    *)
(* the saved timestamps as keys, each with the six rating/note pairs saved.   *)
SaveLoadRoundTrip ==
    (/\ onlySaves
     /\ pc = "select"
     /\ \A i, j \in 1..Len(saved) : i # j => saved[i].key # saved[j].key)
    => /\ KeySet(history) = KeySet(saved)
       /\ \A i \in 1..Len(saved) :
            /\ DOMAIN saved[i].snap = CatSet
            /\ Lookup(history, saved[i].key) = saved[i].snap

SaveLoadRoundTripWitness ==
    /\ onlySaves
    /\ pc = "select"
    /\ Len(saved) = 2
    /\ saved[1].snap # saved[2].snap

(* C2: Delete of a key ts of History removes exactly ts from the in-memory    *)
(* History and from the rewritten file; every other key keeps its content.    *)
DeleteRemovesExactlyOne ==
    [][(/\ pc = "manage"
        /\ click.button = "delete"
        /\ click.ts \in KeySet(history))
       => /\ KeySet(history') = KeySet(history) \ {click.ts}
          /\ \A k \in KeySet(history') : Lookup(history', k) = Lookup(history, k)
          /\ file'.exists
          /\ json_load(file'.content).ok
          /\ AsMap(json_load(file'.content).value)
                = [k \in KeySet(history) \ {click.ts} |-> Lookup(history, k)]]_vars

DeleteWitness ==
    /\ pc = "trigger"
    /\ "deleted" \in messages
    /\ history # <<>>
    /\ click.ts \notin KeySet(history)

(* C3: after ResetAll the History is empty and the backing file is absent.    *)
ResetAllClears ==
    "reset" \in messages => (history = <<>> /\ file = Absent)

ResetAllWitness ==
    /\ pc = "done"
    /\ "reset" \in messages
    /\ "imported" \in messages

(* C4: an Import whose payload does not parse reports an import error and     *)
(* leaves the backing file exactly as it was.                                 *)
FailedImportLeavesFile ==
    [][(/\ pc = "import"
        /\ uploaded.held
        /\ ~json_load(uploaded.content).ok)
       => /\ file' = file
          /\ "import_failed" \in messages'
          /\ "imported" \notin messages']_vars

FailedImportWitness ==
    /\ pc = "manage"
    /\ "import_failed" \in messages
    /\ file.exists
    /\ json_load(file.content).value # <<>>

(* C5: after an Import of a well-formed payload, both the file and the        *)
(* in-memory History equal the parsed payload for the rest of the pass.       *)
ImportReplacesHistory ==
    (pc = "manage" /\ "imported" \in messages)
    => /\ json_load(file.content).value = json_load(uploaded.content).value
       /\ history = json_load(uploaded.content).value

(* C6: the defaults given to the widgets are rating 5 and note "" when        *)
(* History is empty, and otherwise the rating and note of the snapshot under  *)
(* the last key in insertion order.                                           *)
LatestSnapshotDefaults ==
    (/\ selected_time.current
     /\ \/ pc = "chart"
        \/ pc = "done" /\ "exception" \in messages /\ ratings = <<>>)
    => IF history = <<>>
       THEN \A cat \in CatSet :
                defaults[cat] = [rating |-> 5, note |-> ""]
       ELSE \A cat \in DOMAIN history[Len(history)].snap :
                defaults[cat] = history[Len(history)].snap[cat]

LatestSnapshotWitness ==
    /\ selected_time.current
    /\ pc = "chart"
    /\ Len(history) = 2
    /\ StrLess(history[2].key, history[1].key)
    /\ history[1].snap # history[2].snap

IsMax(rs, i) == \A j \in 1..Len(rs) : rs[j] <= rs[i]

IsMin(rs, i) == \A j \in 1..Len(rs) : rs[j] >= rs[i]

(* C7: a category is green if its rating is the maximum of the six, else red  *)
(* if it is the minimum, else its base colour; all equal gives all green, and *)
(* [10,2,2,5,5,5] gives green, red, -, base, base, base.                      *)
ColourRule ==
    (pc = "save" /\ \A i \in 1..Len(ratings) : ratings[i] \in SliderMin..SliderMax)
    => /\ \A i \in 1..Len(categories) :
            /\ IsMax(ratings, i) => colors[i] = "green"
            /\ (~IsMax(ratings, i) /\ IsMin(ratings, i)) => colors[i] = "red"
            /\ (~IsMax(ratings, i) /\ ~IsMin(ratings, i))
                   => colors[i] = base_colors[categories[i]]
       /\ (\A i \in 1..Len(ratings) : ratings[i] = ratings[1])
            => \A i \in 1..Len(categories) : colors[i] = "green"
       /\ ratings = <<10, 2, 2, 5, 5, 5>>
            => /\ colors[1] = "green"
               /\ colors[2] = "red"
               /\ colors[4] = "teal" /\ colors[5] = "grey" /\ colors[6] = "orange"

ColourRuleWitness ==
    /\ pc = "save"
    /\ ratings = <<10, 2, 2, 5, 5, 5>>
    /\ colors[1] = "green"

(* C8: every snapshot in History has all six categories and every rating is   *)
(* an integer in [0, 10].                                                     *)
SnapshotInvariant ==
    \A i \in 1..Len(history) :
        /\ DOMAIN history[i].snap = CatSet
        /\ \A cat \in DOMAIN history[i].snap :
              history[i].snap[cat].rating \in 0..10

(* C9: the keys of History are unique and in ascending string order, so the   *)
(* selector's list (reverse insertion order) is the dashboard's list (reverse *)
(* sorted order).                                                             *)
HistoryOrdered ==
    /\ Cardinality(KeySet(history)) = Len(history)
    /\ \A i, j \in 1..Len(history) : i < j => StrLess(history[i].key, history[j].key)
    /\ selectbox_options(history) = dashboard_order(history)

(* C10: the refresh flag is False when a pass starts, and a pass ends by      *)
(* requesting a rerun exactly when it performed a successful Import, a Delete *)
(* or a ResetAll.                                                             *)
RefreshProtocol ==
    /\ pc = "load" => ~flag_or_false
    /\ (pc = "done" /\ "exception" \notin messages)
          => (rerun <=> messages \cap Destructive # {})

====
